---- MODULE Spec2Model ----
(***************************************************************************)
(* Model of src/src/helpers/MetaRunner.py: the continual-training          *)
(* scheduler MetaRunner.train / fit_offline / dynamic_prediction.          *)
(*                                                                         *)
(* The model object is abstracted to the number of optimizer steps applied *)
(* to it and the state it started from; a checkpoint file holds the model  *)
(* value that save_model wrote.  Every call of train_recommender_vanilla   *)
(* performs one optimizer step and returns a prediction whose numeric      *)
(* class (finite, containing NaN, containing only Inf) is an input.        *)
(*                                                                         *)
(* The second half models the evaluator, class Tester of the same file:    *)
(* generate_recommendation_list_for_a_user, measure_performance_for_a_user *)
(* and a whole pass of recommendation(), and MetaRunner.eval_termination.  *)
(* Metric values are exact rationals standing for the program's floats.    *)
(***************************************************************************)
EXTENDS Integers, Sequences, FiniteSets, TLC

\* ------------------------------------------------------------------ bounds
MaxM == 3          \* at most MaxM snapshot boundaries
MaxBound == 3      \* boundaries are offsets in 1..MaxBound of a stream of MaxBound positions
MaxEpoch == 2      \* self.epoch in 0..MaxEpoch
MaxTEpoch == 2     \* self.tepoch in 0..MaxTEpoch
MaxTrain == 2      \* the pre-training set has MaxTrain examples
MaxThres == 1      \* numeric suffix of the mode string in 0..MaxThres
MaxSnapIdx == 1    \* train()'s snap_idx argument in 0..MaxSnapIdx

\* ------------------------------------------------------------- data types
Unbound == -1      \* the loop variable `epoch` before its first assignment

Tags == 0..(IF MaxM - 1 > MaxSnapIdx THEN MaxM - 1 ELSE MaxSnapIdx)

Absent == [origin |-> "absent", steps |-> 0]
FreshModel == [origin |-> "init", steps |-> 0]
DiskModel == [origin |-> "disk", steps |-> 0]

Predictions == {"finite", "nan", "inf"}

\* np.isnan(prediction).any()
IsNanAny(prediction) == prediction = "nan"

\* `s in self.dyn_method`: the mode string is a stem followed by digits, and
\* no stem of the four is a substring of another stem
Contains(dyn_method, s) == dyn_method.name = s

RECURSIVE DigitsToInt(_)
DigitsToInt(ds) ==
    IF ds = <<>> THEN 0
    ELSE 10 * DigitsToInt(SubSeq(ds, 1, Len(ds) - 1)) + ds[Len(ds)]

\* re.sub('[^0-9]', '', args.dyn_method), '' -> -1, else int(...)
SnapThres(dyn_method) ==
    IF dyn_method.digits = <<>> THEN -1 ELSE DigitsToInt(dyn_method.digits)

DigitSuffixes == {<<>>} \cup {<<d>> : d \in 0..MaxThres}

DynMethods ==
    {[name |-> n, digits |-> <<>>] : n \in {"fulltrain", "pretrain"}}
    \cup {[name |-> n, digits |-> ds] : n \in {"finetune", "modi-fine"}, ds \in DigitSuffixes}

\* strictly increasing sequences of end offsets
RECURSIVE SortedSeq(_)
SortedSeq(S) ==
    IF S = {} THEN <<>>
    ELSE LET m == CHOOSE x \in S : \A y \in S : x <= y
         IN <<m>> \o SortedSeq(S \ {m})

SnapBoundaries ==
    {SortedSeq(S) : S \in {T \in SUBSET (1..MaxBound) : Cardinality(T) \in 1..MaxM}}

\* train()'s snap_idx argument is read under fulltrain (line 300) and
\* modi-fine (line 309) only; the other modes run with its default, 0
ReadsSnapIdx(dyn_method) ==
    Contains(dyn_method, "fulltrain") \/ Contains(dyn_method, "modi-fine")

Configs ==
    {c \in [dyn_method : DynMethods,
            snap_boundaries : SnapBoundaries,
            epoch : 0..MaxEpoch,
            tepoch : 0..MaxTEpoch,
            snap_idx : 0..MaxSnapIdx,
            nTrain : {MaxTrain},
            nTest : {MaxBound},
            exists0 : BOOLEAN] :
        ReadsSnapIdx(c.dyn_method) \/ c.snap_idx = 0}

VARIABLES
    cfg,          \* the run's configuration and arguments (never changes)
    pc,           \* position of the control flow
    model,        \* the caller's model object
    model_,       \* the deep copy fine-tuned by dynamic_prediction
    files,        \* checkpoint files: tag k |-> contents of <model_path>_snap{k}
    saved,        \* the save_model calls so far, in order
    epoch,        \* loop variable of train()'s epoch loop
    k,            \* examples consumed by the current fit_offline pass
    flag,         \* the divergence flag
    snap_idx,     \* loop variable of dynamic_prediction's snapshot loop
    e,            \* loop variable of the tepoch loop
    i,            \* index into snapshot_data
    nanPre,       \* history: a pre-training pass met a NaN prediction
    interrupted,  \* history: KeyboardInterrupt was raised in the epoch loop
    answer,       \* history: the operator's answer to the prompt
    handled,      \* history: snapshot indices that went through the loop body
    skipped,      \* history: snapshot indices the loop skipped with `continue`
    passes,       \* history: passes begun for the current snapshot
    nsteps,       \* history: training steps made for the current snapshot
    aborted,      \* history: a pass of the current snapshot met a NaN prediction
    nanFT,        \* history: the snapshots whose fine-tuning met a NaN prediction
    trained,      \* history: the stream positions the current snapshot's steps used
    tcfg,         \* the evaluator's configuration, data files and model scores
    tpc,          \* position of the evaluator's control flow
    tester,       \* the fields of the Tester object
    attr_file,    \* contents of the user attribute file: user |-> label
    rng,          \* state of the generator of Python's random module
    loop,         \* local variables of the running call
    hist,         \* history: generator state at entry, users evaluated, first report
    criterion,    \* eval_termination's argument: the scores recorded so far
    early_stop,   \* self.early_stop
    verdict       \* eval_termination's result

vars == <<cfg, pc, model, model_, files, saved, epoch, k, flag, snap_idx, e, i,
          nanPre, interrupted, answer, handled, skipped, passes, nsteps, aborted,
          nanFT, trained, tcfg, tpc, tester, attr_file, rng, loop, hist, criterion,
          early_stop, verdict>>

trainVars == <<epoch, k, nanPre, interrupted, answer>>
dpVars == <<snap_idx, e, i, handled, skipped, passes, nsteps, aborted, nanFT, trained>>
evalVars == <<tcfg, tpc, tester, attr_file, rng, loop, hist>>
stopVars == <<criterion, early_stop, verdict>>

\* no evaluation and no early-stop test is running
NoTester ==
    /\ tcfg = <<>>
    /\ tpc = "none"
    /\ tester = <<>>
    /\ attr_file = <<>>
    /\ rng = 0
    /\ loop = <<>>
    /\ hist = <<>>

NoStopTest ==
    /\ criterion = <<>>
    /\ early_stop = 0
    /\ verdict = "none"

M == Len(cfg.snap_boundaries)
snap_thres == SnapThres(cfg.dyn_method)

Init ==
    /\ cfg \in Configs
    /\ pc = "epoch_loop"
    /\ model = FreshModel
    /\ model_ = Absent
    /\ files = [t \in Tags |-> IF t = 0 /\ cfg.exists0 THEN DiskModel ELSE Absent]
    /\ saved = <<>>
    /\ epoch = Unbound
    /\ k = 0
    /\ flag = FALSE
    /\ snap_idx = 0
    /\ e = 0
    /\ i = 0
    /\ nanPre = FALSE
    /\ interrupted = FALSE
    /\ answer = "none"
    /\ handled = <<>>
    /\ skipped = <<>>
    /\ passes = 0
    /\ nsteps = 0
    /\ aborted = FALSE
    /\ nanFT = {}
    /\ trained = <<>>
    /\ NoTester
    /\ NoStopTest

\* one optimizer step (train_recommender_vanilla): the update is applied
\* whatever the prediction is
TrainStep(m) == [m EXCEPT !.steps = @ + 1]

\* mutant: the update of a step whose prediction has a NaN is undone
AfterDivergence_RollBack(m) == [m EXCEPT !.steps = @ - 1]

\* lines 404-406 and 505-507: the flag only leaves the loop, the model keeps
\* the update of optimizer.step() (line 557)
AfterDivergence(m) == m

\* the model after the call of train_recommender_vanilla and the test of
\* its prediction
StepAndTest(m, prediction) ==
    IF IsNanAny(prediction) THEN AfterDivergence(TrainStep(m)) ELSE TrainStep(m)

Exists(t) == files[t] # Absent

\* --------------------------------------------------------- save / load
\* model.save_model(add_path='_snap{tag}'): writes the file, whatever it held
SaveModel(fs, m, tag) == [fs EXCEPT ![tag] = m]

SaveRecord(tag, site) == [tag |-> tag, site |-> site]

\* ------------------------------------------------- train(): epoch loop
\* mutant: an existing _snap0 is loaded in every mode
AlreadyTrainedCond_AnyMode == Exists(0)

\* line 228: the pre-training is skipped when _snap0 is already there
AlreadyTrainedCond == Contains(cfg.dyn_method, "finetune") /\ Exists(0)

\* lines 222-231: the loop takes its next value; an existing _snap0 is
\* loaded under a finetune mode and the loop is left
AlreadyTrained ==
    /\ pc = "epoch_loop"
    /\ epoch + 1 < cfg.epoch
    /\ AlreadyTrainedCond
    /\ epoch' = epoch + 1
    /\ model' = files[0]
    /\ pc' = "post"
    /\ UNCHANGED evalVars
    /\ UNCHANGED stopVars
    /\ UNCHANGED <<cfg, model_, files, saved, k, flag, nanPre, interrupted, answer>>
    /\ UNCHANGED dpVars

\* lines 222-234: the loop takes its next value and fit_offline starts a pass
EpochStart ==
    /\ pc = "epoch_loop"
    /\ epoch + 1 < cfg.epoch
    /\ ~AlreadyTrainedCond
    /\ epoch' = epoch + 1
    /\ k' = 0
    /\ flag' = FALSE
    /\ pc' = "fit_offline"
    /\ UNCHANGED evalVars
    /\ UNCHANGED stopVars
    /\ UNCHANGED <<cfg, model, model_, files, saved, nanPre, interrupted, answer>>
    /\ UNCHANGED dpVars

\* line 222: range(self.epoch) is exhausted
EpochsExhausted ==
    /\ pc = "epoch_loop"
    /\ ~(epoch + 1 < cfg.epoch)
    /\ pc' = "post"
    /\ UNCHANGED evalVars
    /\ UNCHANGED stopVars
    /\ UNCHANGED <<cfg, model, model_, files, saved, flag>>
    /\ UNCHANGED trainVars
    /\ UNCHANGED dpVars

\* mutant: the NaN flag does not leave the epoch loop
AfterPass_NoBreak(flg) == "epoch_loop"

\* where train() goes when fit_offline returns (lines 240-242)
AfterPass(flg) == IF flg THEN "post" ELSE "epoch_loop"

\* lines 390-408 and 235-246: one training step of the pass; the pass ends
\* at a NaN prediction or after the last example, and train() breaks out of
\* the epoch loop when the flag is set
FitOfflineStep ==
    /\ pc = "fit_offline"
    /\ k < cfg.nTrain
    /\ \E prediction \in Predictions :
        /\ model' = StepAndTest(model, prediction)
        /\ flag' = IsNanAny(prediction)
        /\ k' = k + 1
        /\ nanPre' = (nanPre \/ flag')
        /\ pc' = IF flag' \/ k' = cfg.nTrain THEN AfterPass(flag') ELSE "fit_offline"
    /\ UNCHANGED evalVars
    /\ UNCHANGED stopVars
    /\ UNCHANGED <<cfg, model_, files, saved, epoch, interrupted, answer>>
    /\ UNCHANGED dpVars

\* mutant: the interrupt is looked at between epochs only, a running pass
\* is finished first
AfterInterrupt_FinishPass(at) == IF at = "fit_offline" THEN "fit_offline" ELSE "prompt"

\* lines 221 and 262-264: the except clause takes over from wherever the
\* try block was
AfterInterrupt(at) == "prompt"

\* line 262: KeyboardInterrupt is raised somewhere inside the try block
KeyboardInterrupt ==
    /\ pc \in {"epoch_loop", "fit_offline"}
    /\ interrupted' = TRUE
    /\ pc' = AfterInterrupt(pc)
    /\ UNCHANGED evalVars
    /\ UNCHANGED stopVars
    /\ UNCHANGED <<cfg, model, model_, files, saved, epoch, k, flag, nanPre, answer>>
    /\ UNCHANGED dpVars

\* mutant: the answer is read the wrong way round
ExitsHere_Inverted(exit_here) == exit_here = "n"

\* line 265
ExitsHere(exit_here) == exit_here = "y"

\* lines 264-267: the operator answers; 'y' exits the process
ExitPrompt ==
    /\ pc = "prompt"
    /\ \E exit_here \in {"y", "n"} :
        /\ answer' = exit_here
        /\ pc' = IF ExitsHere(exit_here) THEN "exited" ELSE "post"
    /\ UNCHANGED evalVars
    /\ UNCHANGED stopVars
    /\ UNCHANGED <<cfg, model, model_, files, saved, epoch, k, flag, nanPre, interrupted>>
    /\ UNCHANGED dpVars

\* ---------------------------------------------- train(): the mode branch
\* mutant: the tag is the index of the last boundary, not the argument
FullTrainTag_LastBoundary == M - 1

\* line 300: the tag of the full re-training checkpoint
FullTrainTag == cfg.snap_idx

\* mutant: the last boundary gets no checkpoint
PreTrainCount_OffByOne == M - 1

\* line 304: range(len(self.snap_boundaries))
PreTrainCount == M

\* lines 299-301
FullTrain ==
    /\ pc = "post"
    /\ Contains(cfg.dyn_method, "fulltrain")
    /\ files' = SaveModel(files, model, FullTrainTag)
    /\ saved' = Append(saved, SaveRecord(FullTrainTag, "fulltrain"))
    /\ pc' = "done"
    /\ UNCHANGED evalVars
    /\ UNCHANGED stopVars
    /\ UNCHANGED <<cfg, model, model_, flag>>
    /\ UNCHANGED trainVars
    /\ UNCHANGED dpVars

\* lines 303-305 (and the fall through to line 372)
PreTrain ==
    /\ pc = "post"
    /\ ~Contains(cfg.dyn_method, "fulltrain")
    /\ Contains(cfg.dyn_method, "pretrain")
    /\ files' = [t \in Tags |-> IF t < PreTrainCount THEN model ELSE files[t]]
    /\ saved' = saved \o [j \in 1..PreTrainCount |-> SaveRecord(j - 1, "pretrain")]
    /\ pc' = "done"
    /\ UNCHANGED evalVars
    /\ UNCHANGED stopVars
    /\ UNCHANGED <<cfg, model, model_, flag>>
    /\ UNCHANGED trainVars
    /\ UNCHANGED dpVars

\* mutant: the modi-fine checkpoints are written in every mode
ModiFineTags_AnyMode == 0..cfg.snap_idx

\* lines 308-310: the tags modi-fine writes before _snap0
ModiFineTags == IF Contains(cfg.dyn_method, "modi-fine") THEN 0..cfg.snap_idx ELSE {}

\* mutant: fine-tuning starts from a newly initialised model
DeepCopy_Fresh(m) == FreshModel

\* line 312: copy.deepcopy(model)
DeepCopy(m) == m

\* lines 307-320: checkpoints of the pre-trained model, the deep copy, and
\* the call of dynamic_prediction, whose argument epoch + 1 needs the loop
\* variable to be bound
FineTune ==
    /\ pc = "post"
    /\ ~Contains(cfg.dyn_method, "fulltrain")
    /\ ~Contains(cfg.dyn_method, "pretrain")
    /\ files' = [t \in Tags |-> IF t \in ModiFineTags \cup {0} THEN model ELSE files[t]]
    /\ saved' = saved \o [j \in 1..Cardinality(ModiFineTags) |-> SaveRecord(j - 1, "modi-fine")]
                      \o <<SaveRecord(0, "snap0")>>
    /\ model_' = DeepCopy(model)
    /\ IF epoch = Unbound
          THEN pc' = "crashed" /\ UNCHANGED <<flag, snap_idx>>
          ELSE pc' = "dp_loop" /\ flag' = FALSE /\ snap_idx' = 0
    /\ UNCHANGED evalVars
    /\ UNCHANGED stopVars
    /\ UNCHANGED <<cfg, model>>
    /\ UNCHANGED trainVars
    /\ UNCHANGED <<e, i, handled, skipped, passes, nsteps, aborted, nanFT, trained>>

\* ------------------------------------------------- dynamic_prediction
\* mutant: snapshot 0 starts at position 0 and every later snapshot too
Starts_Zero(snap) == 0

\* lines 424-431 (snap is the 0-based snapshot index)
Starts(snap) == IF snap = 0 THEN -100 ELSE cfg.snap_boundaries[snap]

\* mutant: every snapshot runs to the last boundary
Ends_Last(snap) == cfg.snap_boundaries[Len(cfg.snap_boundaries)]

Ends(snap) == cfg.snap_boundaries[snap + 1]

RECURSIVE Collect(_, _, _)
\* lines 444-455: enumerate the stream from position pos on, skip the
\* positions before start, stop at the first position >= end
Collect(pos, start, end) ==
    IF pos >= cfg.nTest \/ pos >= end THEN <<>>
    ELSE IF pos < start THEN Collect(pos + 1, start, end)
    ELSE <<pos>> \o Collect(pos + 1, start, end)

\* lines 433-457: data_custom[snap], the stream positions of one snapshot
data_custom(snap) == Collect(0, Starts(snap), Ends(snap))

\* mutant: snapshot 0 is not skipped
IsPretrainData_Never(snap) == snap < 0

\* line 478: snapshot 0 is the pre-training data
IsPretrainData(snap) == snap = 0

\* mutant: the comparison with snap_thres is reversed
Trains_Reversed(snap) == snap <= snap_thres

\* line 481: snapshots up to snap_thres get no training
Trains(snap) == snap > snap_thres

\* mutant: the mode is not looked at
KeepsCheckpoint_AnyMode(snap) == snap <= snap_thres

\* mutant: every handled snapshot is written
KeepsCheckpoint_Never(snap) == FALSE

\* line 530: the checkpoint of this snapshot is left alone
KeepsCheckpoint(snap) == Contains(cfg.dyn_method, "modi-fine") /\ snap <= snap_thres

\* line 473 with 541-542 and train()'s lines 321-372: no snapshot is left
DPReturn ==
    /\ pc = "dp_loop"
    /\ ~(snap_idx < M)
    /\ pc' = "done"
    /\ UNCHANGED evalVars
    /\ UNCHANGED stopVars
    /\ UNCHANGED <<cfg, model, model_, files, saved, flag>>
    /\ UNCHANGED trainVars
    /\ UNCHANGED dpVars

\* lines 473-479: `continue` at snapshot 0
DPSkip ==
    /\ pc = "dp_loop"
    /\ snap_idx < M
    /\ IsPretrainData(snap_idx)
    /\ skipped' = Append(skipped, snap_idx)
    /\ snap_idx' = snap_idx + 1
    /\ UNCHANGED evalVars
    /\ UNCHANGED stopVars
    /\ UNCHANGED <<cfg, pc, model, model_, files, saved, flag>>
    /\ UNCHANGED trainVars
    /\ UNCHANGED <<e, i, handled, passes, nsteps, aborted, nanFT, trained>>

\* lines 473-485: the loop body starts for a snapshot after the first
DPBegin ==
    /\ pc = "dp_loop"
    /\ snap_idx < M
    /\ ~IsPretrainData(snap_idx)
    /\ handled' = Append(handled, snap_idx)
    /\ passes' = 0
    /\ nsteps' = 0
    /\ aborted' = FALSE
    /\ trained' = <<>>
    /\ e' = 0
    /\ i' = 0
    /\ pc' = IF Trains(snap_idx) THEN "dp_epoch" ELSE "dp_save"
    /\ UNCHANGED evalVars
    /\ UNCHANGED stopVars
    /\ UNCHANGED <<cfg, model, model_, files, saved, flag, snap_idx, skipped, nanFT>>
    /\ UNCHANGED trainVars

\* lines 485-493 and 512-524: the next pass starts, or the passes are over;
\* a pass over no example ends at once
DPEpoch ==
    /\ pc = "dp_epoch"
    /\ IF e < cfg.tepoch
          THEN /\ passes' = passes + 1
               /\ i' = 0
               /\ IF data_custom(snap_idx) = <<>>
                     THEN e' = e + 1 /\ pc' = "dp_epoch"
                     ELSE e' = e /\ pc' = "dp_step"
          ELSE /\ pc' = "dp_save"
               /\ UNCHANGED <<passes, i, e>>
    /\ UNCHANGED evalVars
    /\ UNCHANGED stopVars
    /\ UNCHANGED <<cfg, model, model_, files, saved, flag, snap_idx, handled,
                   skipped, nsteps, aborted, nanFT, trained>>
    /\ UNCHANGED trainVars

\* mutant: a NaN prediction returns from dynamic_prediction
AfterStep_Return(flg, last) ==
    IF flg THEN "done" ELSE IF last THEN "dp_epoch" ELSE "dp_step"

\* mutant: a NaN prediction ends the pass only, the next pass follows
AfterStep_NextPass(flg, last) ==
    IF flg \/ last THEN "dp_epoch" ELSE "dp_step"

\* where the snapshot's training goes after a step (lines 505-521): a NaN
\* prediction leaves the pass and the tepoch loop
AfterStep(flg, last) ==
    IF flg THEN "dp_save" ELSE IF last THEN "dp_epoch" ELSE "dp_step"

\* lines 494-521: one training step on snapshot_data[i]
DPStep ==
    /\ pc = "dp_step"
    /\ i < Len(data_custom(snap_idx))
    /\ \E prediction \in Predictions :
        LET flg == IsNanAny(prediction)
            last == (i + 1 = Len(data_custom(snap_idx)))
        IN /\ model_' = StepAndTest(model_, prediction)
           /\ trained' = Append(trained, data_custom(snap_idx)[i + 1])
           /\ nsteps' = nsteps + 1
           /\ aborted' = (aborted \/ flg)
           /\ nanFT' = IF flg THEN nanFT \cup {snap_idx} ELSE nanFT
           /\ flag' = FALSE
           /\ pc' = AfterStep(flg, last)
           /\ i' = IF flg \/ last THEN 0 ELSE i + 1
           /\ e' = IF ~flg /\ last THEN e + 1 ELSE e
    /\ UNCHANGED evalVars
    /\ UNCHANGED stopVars
    /\ UNCHANGED <<cfg, model, files, saved, snap_idx, handled, skipped, passes>>
    /\ UNCHANGED trainVars

\* lines 529-538: the checkpoint of the snapshot, then the next snapshot
DPSave ==
    /\ pc = "dp_save"
    /\ IF KeepsCheckpoint(snap_idx)
          THEN UNCHANGED <<files, saved>>
          ELSE /\ files' = SaveModel(files, model_, snap_idx)
               /\ saved' = Append(saved, SaveRecord(snap_idx, "dp"))
    /\ snap_idx' = snap_idx + 1
    /\ pc' = "dp_loop"
    /\ UNCHANGED evalVars
    /\ UNCHANGED stopVars
    /\ UNCHANGED <<cfg, model, model_, flag, e, i, handled, skipped, passes, nsteps,
                   aborted, nanFT, trained>>
    /\ UNCHANGED trainVars

\* ------------------------------------------------------ specifications
Next ==
    \/ AlreadyTrained
    \/ EpochStart
    \/ EpochsExhausted
    \/ FitOfflineStep
    \/ KeyboardInterrupt
    \/ ExitPrompt
    \/ FullTrain
    \/ PreTrain
    \/ FineTune
    \/ DPReturn
    \/ DPSkip
    \/ DPBegin
    \/ DPEpoch
    \/ DPStep
    \/ DPSave

Spec == Init /\ [][Next]_vars

\* train() with no KeyboardInterrupt; the interpreter keeps running the code
NextNoInterrupt ==
    \/ AlreadyTrained
    \/ EpochStart
    \/ EpochsExhausted
    \/ FitOfflineStep
    \/ FullTrain
    \/ PreTrain
    \/ FineTune
    \/ DPReturn
    \/ DPSkip
    \/ DPBegin
    \/ DPEpoch
    \/ DPStep
    \/ DPSave

SpecNoInterrupt == Init /\ [][NextNoInterrupt]_vars /\ WF_vars(NextNoInterrupt)

\* ------------------------------------------------- notions of the claims
Iota(n) == [j \in 1..n |-> j]

TagsOf(log) == [j \in 1..Len(log) |-> log[j].tag]

IsDPSave(r) == r.site = "dp"

\* the tags written by dynamic_prediction, in order
DPTags == TagsOf(SelectSeq(saved, IsDPSave))

\* how often dynamic_prediction wrote _snap{idx}
CountDP(idx) == Cardinality({j \in 1..Len(saved) : saved[j] = SaveRecord(idx, "dp")})

Distinct(seq) == \A a, b \in 1..Len(seq) : a # b => seq[a] # seq[b]

InFineTune == pc \in {"dp_loop", "dp_epoch", "dp_step", "dp_save"}

HasSuffix == cfg.dyn_method.digits # <<>>

\* the numeric suffix N of the mode string (one digit here), -1 without one
SuffixN == IF HasSuffix THEN cfg.dyn_method.digits[1] ELSE -1

\* the snapshots FINE_TUNE writes no checkpoint for: modi-fine<N>, idx <= N
NoCheckpointFor(idx) == cfg.dyn_method.name = "modi-fine" /\ idx <= SuffixN

\* the epoch loop ran all its passes: no NaN flag and no interrupt
PreTrainedNormally == ~nanPre /\ ~interrupted

\* what a run that went through its mode's branch has done when it returns
BranchOutcome ==
    IF Contains(cfg.dyn_method, "fulltrain")
    THEN TagsOf(saved) = <<cfg.snap_idx>> /\ handled = <<>>
    ELSE IF Contains(cfg.dyn_method, "pretrain")
    THEN TagsOf(saved) = [j \in 1..M |-> j - 1] /\ handled = <<>>
    ELSE /\ \E j \in 1..Len(saved) : saved[j] = SaveRecord(0, "snap0")
         /\ handled = Iota(M - 1)
         /\ \A idx \in 1..(M - 1) :
              CountDP(idx) = IF NoCheckpointFor(idx) THEN 0 ELSE 1

\* C1: under a finetune mode dynamic_prediction skips snapshot 0, handles the
\* snapshots 1..M-1 in increasing order and writes _snap1 .. _snap{M-1}, in
\* that order and each once: M-1 checkpoints when it returns.
C1_FinetuneCheckpoints ==
    Contains(cfg.dyn_method, "finetune") =>
        /\ DPTags = Iota(Len(DPTags))
        /\ handled = Iota(Len(handled))
        /\ Len(DPTags) <= Len(handled)
        /\ (pc = "done" => /\ skipped = <<0>>
                           /\ Len(handled) = M - 1
                           /\ Len(DPTags) = M - 1)

C1_Witness ==
    /\ Contains(cfg.dyn_method, "finetune")
    /\ pc = "done"
    /\ M = 3
    /\ skipped = <<0>>
    /\ DPTags = <<1, 2>>

C3_Original ==
    (Contains(cfg.dyn_method, "modi-fine") /\ HasSuffix /\ pc = "dp_save") =>
        /\ snap_idx <= SuffixN => passes = cfg.tepoch
        /\ snap_idx > SuffixN => passes = 0 /\ nsteps = 0

\* C3 amended: under modi-fine<N> a snapshot i >= 1 is fine-tuned exactly
\* when i > N: it gets tepoch passes over its examples, fewer when a pass
\* meets a NaN prediction (which ends the snapshot's training); a snapshot
\* with i <= N gets no pass and no training step.
C3_Amended ==
    (Contains(cfg.dyn_method, "modi-fine") /\ HasSuffix /\ pc = "dp_save") =>
        /\ snap_idx <= SuffixN => passes = 0 /\ nsteps = 0
        /\ snap_idx > SuffixN =>
             IF aborted
             THEN /\ passes \in 1..cfg.tepoch
                  /\ nsteps > (passes - 1) * Len(data_custom(snap_idx))
                  /\ nsteps <= passes * Len(data_custom(snap_idx))
             ELSE /\ passes = cfg.tepoch
                  /\ nsteps = cfg.tepoch * Len(data_custom(snap_idx))

C3_Witness ==
    /\ Contains(cfg.dyn_method, "modi-fine")
    /\ cfg.dyn_method.digits = <<1>>
    /\ pc = "dp_save"
    /\ handled = <<1, 2>>
    /\ passes = 2
    /\ nsteps = 2
    /\ model_.steps = model.steps + nsteps
    /\ ~aborted

\* C4: in dynamic_prediction every handled snapshot i in 1..M-1 gets its
\* checkpoint _snap{i}, holding the fine-tuned copy, exactly once, unless the
\* mode is modi-fine<N> and i <= N, when no _snap{i} is written; a snapshot
\* left untrained by the threshold of a finetune mode is still checkpointed.
C4_CheckpointRule ==
    /\ \A idx \in 0..(M - 1) :
         CountDP(idx) = IF idx >= 1 /\ idx < snap_idx /\ ~NoCheckpointFor(idx)
                        THEN 1 ELSE 0
    /\ (pc = "dp_loop" /\ snap_idx >= 2 /\ ~NoCheckpointFor(snap_idx - 1)) =>
         files[snap_idx - 1] = model_

C4_Witness ==
    /\ Contains(cfg.dyn_method, "finetune")
    /\ SuffixN = 1
    /\ cfg.tepoch = 2
    /\ pc = "done"
    /\ M = 3
    /\ DPTags = <<1, 2>>
    /\ files[1] = model
    /\ files[2].steps > model.steps

\* C5: a NaN prediction while snapshot i is fine-tuned neither stops nor
\* crashes the run: _snap{i} is still written, the later snapshots are
\* handled in order, and train() returns.
C5_NanDoesNotStop ==
    nanFT # {} =>
        /\ pc \in {"dp_loop", "dp_epoch", "dp_step", "dp_save", "done"}
        /\ (pc # "done" => ENABLED Next)
        /\ handled = Iota(Len(handled))
        /\ \A idx \in nanFT :
             CountDP(idx) = IF idx < snap_idx /\ ~NoCheckpointFor(idx) THEN 1 ELSE 0
        /\ (pc = "done" => snap_idx = M /\ handled = Iota(M - 1))

C5_Witness ==
    /\ nanFT = {1}
    /\ pc = "done"
    /\ M = 3
    /\ DPTags = <<1, 2>>
    /\ cfg.tepoch = 2

C7_FullTrainOneCheckpoint ==
    (Contains(cfg.dyn_method, "fulltrain") /\ PreTrainedNormally) =>
        /\ pc \in {"epoch_loop", "fit_offline", "post", "done"}
        /\ (pc # "done" => saved = <<>>)
        /\ (pc = "done" =>
              /\ saved = <<SaveRecord(cfg.snap_idx, "fulltrain")>>
              /\ files[cfg.snap_idx] = model
              /\ model.steps = cfg.epoch * cfg.nTrain)
        /\ handled = <<>>
        /\ skipped = <<>>
        /\ model_ = Absent

C7_Witness ==
    /\ Contains(cfg.dyn_method, "fulltrain")
    /\ PreTrainedNormally
    /\ pc = "done"
    /\ cfg.snap_idx = 1
    /\ cfg.exists0
    /\ model.steps = 4
    /\ files[1] = model

\* C8: under pretrain, after a normally completed pre-training, one
\* checkpoint per snapshot boundary is written, _snap0 .. _snap{M-1}, all
\* holding the pre-trained model, and no fine-tuning is made.
C8_PreTrainCheckpoints ==
    (Contains(cfg.dyn_method, "pretrain") /\ PreTrainedNormally) =>
        /\ pc \in {"epoch_loop", "fit_offline", "post", "done"}
        /\ (pc # "done" => saved = <<>>)
        /\ (pc = "done" =>
              /\ saved = [j \in 1..M |-> SaveRecord(j - 1, "pretrain")]
              /\ \A t \in 0..(M - 1) : files[t] = model
              /\ model.steps = cfg.epoch * cfg.nTrain)
        /\ handled = <<>>
        /\ skipped = <<>>
        /\ model_ = Absent

C8_Witness ==
    /\ Contains(cfg.dyn_method, "pretrain")
    /\ PreTrainedNormally
    /\ pc = "done"
    /\ M = 3
    /\ Len(saved) = 3
    /\ model.steps = 4
    /\ files[2] = model

\* C9 as stated: no save_model call of a run targets a tag written earlier
\* in the run or a checkpoint that existed when the run started.
C9_Original ==
    /\ Distinct(TagsOf(saved))
    /\ \A j \in 1..Len(saved) : ~(cfg.exists0 /\ saved[j].tag = 0)

\* C9 amended: dynamic_prediction never writes a tag twice, and under
\* fulltrain, pretrain and finetune no tag is written twice in a run; a
\* checkpoint that existed before the run is overwritten, and modi-fine
\* writes _snap0 twice before the fine-tuning.
C9_Amended ==
    /\ Distinct(DPTags)
    /\ \A j \in 1..Len(DPTags) : DPTags[j] >= 1
    /\ ~Contains(cfg.dyn_method, "modi-fine") => Distinct(TagsOf(saved))

C9_Witness ==
    /\ Contains(cfg.dyn_method, "finetune")
    /\ cfg.exists0
    /\ pc = "done"
    /\ TagsOf(saved) = <<0, 1, 2>>
    /\ files[0] = DiskModel

\* C10: with finite epoch, tepoch and data and no interrupt, train() reaches
\* its normal end, in the fine-tuning modes after every snapshot 1..M-1 was
\* handled.
C10_Original ==
    <>(/\ pc = "done"
       /\ (~Contains(cfg.dyn_method, "fulltrain") /\ ~Contains(cfg.dyn_method, "pretrain"))
            => Len(handled) = M - 1)

\* ======================================================================
\* The evaluator: class Tester, and MetaRunner.eval_termination
\* ======================================================================

\* ------------------------------------------------------------------ bounds
MaxUsers == 2        \* train_user_set is 1..MaxUsers
MaxItems == 3        \* train_item_set is 1..MaxItems; item MaxItems + 1 is in test data only
RngStates == 3       \* the random generator has RngStates states
NumNegSamples == 1   \* self.num_neg_samples (100 in the program) scaled to the item set
HistoryMargin == 2   \* score histories have up to Patience + HistoryMargin entries
MaxStop == 2         \* self.early_stop in 1..MaxStop

\* ------------------------------------------------------ program constants
Seed == 10           \* random.seed(10)
Patience == 20       \* the two 20s of eval_termination
AllNegatives == -1   \* num_neg_samples = -1: every eligible item is a negative

\* ------------------------------------------------------------- arithmetic
\* A metric value is the exact rational n / d, d > 0, in lowest terms.
Abs(x) == IF x < 0 THEN 0 - x ELSE x

RECURSIVE Gcd(_, _)
Gcd(a, b) == IF b = 0 THEN a ELSE Gcd(b, a % b)

Frac(n, d) == LET g == Gcd(Abs(n), d) IN [n |-> n \div g, d |-> d \div g]

Zero == Frac(0, 1)
One == Frac(1, 1)

RAdd(a, b) == Frac(a.n * b.d + b.n * a.d, a.d * b.d)
RSub(a, b) == Frac(a.n * b.d - b.n * a.d, a.d * b.d)
RMul(a, b) == Frac(a.n * b.n, a.d * b.d)
RDivInt(a, c) == Frac(a.n, a.d * c)

\* round(n / d) of two integers, d > 0: Python rounds halves to the even integer
PyRound(n, d) ==
    LET q == n \div d
        r == n % d
    IN IF 2 * r < d THEN q
       ELSE IF 2 * r > d THEN q + 1
       ELSE IF q % 2 = 0 THEN q ELSE q + 1

\* ------------------------------------------------------------------- data
Users == 1..MaxUsers               \* train_user_set, iterated in this order
train_item_set == 1..MaxItems
ItemIds == 1..(MaxItems + 1)
Groups == {0, 1}                   \* binary = list(range(2)); user_groups = [binary]

Range(s) == {s[j] : j \in 1..Len(s)}
Take(s, n) == SubSeq(s, 1, IF n < Len(s) THEN n ELSE Len(s))

\* model.get_relevances depends on the model's state only; the states drawn
\* score an item by its id, by its id reversed, equally, or by its parity
Relevances ==
    {[it \in ItemIds |-> it], [it \in ItemIds |-> 0 - it],
     [it \in ItemIds |-> 0], [it \in ItemIds |-> it % 2]}

\* ----------------------------- generate_recommendation_list_for_a_user
\* list(set(train_item_set) - set(train_pos[user]) - set(test_pos[user]))
new_item_set(train_pos_u, test_pos_u) ==
    SortedSeq((train_item_set \ Range(train_pos_u)) \ Range(test_pos_u))

\* the size passed to random.sample: lines 1012-1016 only print
SampleSize_Clipped(num_neg_samples, n) ==
    IF num_neg_samples > n THEN n ELSE num_neg_samples

SampleSize(num_neg_samples, n) == num_neg_samples

\* random.sample(population, size) in generator state r: ValueError when
\* size is negative or larger than the population, else size distinct
\* elements chosen by the generator's state, which advances
RandomSample(population, size, r) ==
    IF size < 0 \/ size > Len(population)
    THEN [raised |-> TRUE, sample |-> <<>>, rng |-> r]
    ELSE [raised |-> FALSE,
          sample |-> IF size = 0 THEN <<>>
                     ELSE [j \in 1..size |->
                              population[((r + j - 1) % Len(population)) + 1]],
          rng |-> (r + size) % RngStates]

\* the keys of the dict `relevances`, in order of first insertion
RelevanceKeys_List(candidate_items) == candidate_items

RECURSIVE RelevanceKeys(_)
RelevanceKeys(candidate_items) ==
    IF candidate_items = <<>> THEN <<>>
    ELSE LET n == Len(candidate_items)
             before == RelevanceKeys(SubSeq(candidate_items, 1, n - 1))
         IN IF candidate_items[n] \in Range(before) THEN before
            ELSE Append(before, candidate_items[n])

\* mutant: an entry goes before the entries of equal relevance
RECURSIVE InsertDesc_Unstable(_, _, _)
InsertDesc_Unstable(sorted, x, val) ==
    IF sorted = <<>> THEN <<x>>
    ELSE IF val[Head(sorted)] > val[x]
         THEN <<Head(sorted)>> \o InsertDesc_Unstable(Tail(sorted), x, val)
         ELSE <<x>> \o sorted

\* sorted(..., key=lambda x: x[1], reverse=True): descending, and entries
\* of equal relevance keep their order
RECURSIVE InsertDesc(_, _, _)
InsertDesc(sorted, x, val) ==
    IF sorted = <<>> THEN <<x>>
    ELSE IF val[Head(sorted)] >= val[x]
         THEN <<Head(sorted)>> \o InsertDesc(Tail(sorted), x, val)
         ELSE <<x>> \o sorted

RECURSIVE SortDesc(_, _)
SortDesc(keys, val) ==
    IF keys = <<>> THEN <<>>
    ELSE InsertDesc(SortDesc(SubSeq(keys, 1, Len(keys) - 1), val),
                    keys[Len(keys)], val)

\* recommendation_list = [...][:K] if K > 0, else the whole ranking
TopK(ranking, K) == IF K > 0 THEN Take(ranking, K) ELSE ranking

generate_recommendation_list_for_a_user(rel, train_pos_u, test_pos_u, K, num_neg_samples, r) ==
    LET new_items == new_item_set(train_pos_u, test_pos_u)
        drawn == IF num_neg_samples # AllNegatives
                 THEN RandomSample(new_items,
                                   SampleSize(num_neg_samples, Len(new_items)), r)
                 ELSE [raised |-> FALSE, sample |-> new_items, rng |-> r]
        candidate_items == test_pos_u \o drawn.sample
        n == Len(candidate_items)
        item_relevances == [j \in 1..n |-> rel[candidate_items[j]]]
        \* relevances[item] = relevance: the last assignment stays
        val == [it \in Range(candidate_items) |->
                   item_relevances[CHOOSE j \in 1..n :
                       /\ candidate_items[j] = it
                       /\ \A h \in (j + 1)..n : candidate_items[h] # it]]
        sorted_relevances == SortDesc(RelevanceKeys(candidate_items), val)
        cnt == Cardinality({j \in 1..n : candidate_items[j] \notin train_item_set})
    IN [raised |-> drawn.raised,
        neg_samples |-> drawn.sample,
        candidate_items |-> candidate_items,
        recommendation_list |-> TopK(sorted_relevances, K),
        cnt |-> cnt,
        rng |-> drawn.rng]

\* ------------------------------------------------------- per-user metrics
\* np.isin(rec_list, test_pos).sum()
HitCount(rec_list, test_pos_u) ==
    Cardinality({j \in 1..Len(rec_list) : rec_list[j] \in Range(test_pos_u)})

measure_recall(rec_list, test_pos_u) ==
    Frac(HitCount(rec_list, test_pos_u), Len(test_pos_u))

measure_num_hit(rec_list, test_pos_u) == Frac(HitCount(rec_list, test_pos_u), 1)

measure_hit_ratio(rec_list, test_pos_u) ==
    IF HitCount(rec_list, test_pos_u) > 0 THEN One ELSE Zero

measure_precision_OverPositives(rec_list, test_pos_u) ==
    Frac(HitCount(rec_list, test_pos_u), Len(test_pos_u))

measure_precision(rec_list, test_pos_u) ==
    Frac(HitCount(rec_list, test_pos_u), Len(rec_list))

\* The metric names the model evaluates, of the thirteen that
\* measure_performance_for_a_user dispatches on; any other name takes the
\* final else branch.
Supported == {"recall", "hit_ratio", "precision", "hit"}

MetricValue(metric, rec_list, test_pos_u) ==
    CASE metric = "recall" -> measure_recall(rec_list, test_pos_u)
      [] metric = "hit_ratio" -> measure_hit_ratio(rec_list, test_pos_u)
      [] metric = "precision" -> measure_precision(rec_list, test_pos_u)
      [] metric = "hit" -> measure_num_hit(rec_list, test_pos_u)

\* --------------------------------------------------------- the accumulators
\* the Tester after __init__: no pass has run
NewTester ==
    [results |-> <<>>, num_test_users |-> 0, results_user_attr |-> <<>>,
     num_users_per_group |-> <<>>, num_actual_users_per_group |-> <<>>,
     num_unseen_items_per_group |-> <<>>, num_test_pos_per_group |-> <<>>,
     num_train_pos_per_group |-> <<>>, user_attr |-> <<>>,
     variance |-> <<>>, binary_unfairness |-> <<>>]

init_results(t, metrics) ==
    [t EXCEPT !.results = [m \in Range(metrics) |-> Zero],
              !.num_test_users = 0,
              !.results_user_attr = [a \in Groups |-> [m \in Range(metrics) |-> Zero]],
              !.num_users_per_group = [a \in Groups |-> 0],
              !.num_actual_users_per_group = [a \in Groups |-> 0],
              !.num_unseen_items_per_group = [a \in Groups |-> 0],
              !.num_test_pos_per_group = [a \in Groups |-> 0],
              !.num_train_pos_per_group = [a \in Groups |-> 0]]

\* self.user_attr[u_idx] = [user_attr_dict[u_idx][0]] for every training user
set_user_attr(t, file) == [t EXCEPT !.user_attr = [u \in Users |-> file[u]]]

\* `if flag == 0`: the user is counted in the first turn of the metric loop
CountsUser_Always(flag_) == TRUE

CountsUser(flag_) == flag_ = 0

\* `if self.user_attr[user][k] == attr`
InGroup_Any(label, attr) == TRUE

InGroup(label, attr) == label = attr

\* one turn of `for metric in self.metrics` for a supported metric
\* (lines 1121-1138); call = the arguments of measure_performance_for_a_user
AddValue(t, metric, flag_, call) ==
    LET test_pos_u == call.test_pos[call.user]
        train_pos_u == call.train_pos[call.user]
        value == MetricValue(metric, call.recommendation_list, test_pos_u)
        mine(a) == InGroup(t.user_attr[call.user], a)
        first(a) == mine(a) /\ CountsUser(flag_)
    IN [t EXCEPT
          !.results[metric] = RAdd(@, value),
          !.num_test_users = IF CountsUser(flag_) THEN @ + 1 ELSE @,
          !.results_user_attr =
              [a \in Groups |->
                  IF mine(a)
                  THEN [t.results_user_attr[a] EXCEPT ![metric] = RAdd(@, value)]
                  ELSE t.results_user_attr[a]],
          !.num_users_per_group =
              [a \in Groups |-> t.num_users_per_group[a] + IF first(a) THEN 1 ELSE 0],
          !.num_unseen_items_per_group =
              [a \in Groups |-> t.num_unseen_items_per_group[a]
                                  + IF first(a) THEN call.num_unseen_items ELSE 0],
          !.num_test_pos_per_group =
              [a \in Groups |-> t.num_test_pos_per_group[a]
                                  + IF first(a) THEN Len(test_pos_u) ELSE 0],
          !.num_train_pos_per_group =
              [a \in Groups |-> t.num_train_pos_per_group[a]
                                  + IF first(a) THEN Len(train_pos_u) ELSE 0]]

\* the metric loop from its j-th turn on; a name outside the dispatch raises
\* ValueError and leaves what the earlier turns added
RECURSIVE MetricLoop(_, _, _, _, _)
MetricLoop(t, metrics, j, flag_, call) ==
    IF j > Len(metrics) THEN [t |-> t, raised |-> FALSE]
    ELSE IF metrics[j] \notin Supported THEN [t |-> t, raised |-> TRUE]
    ELSE MetricLoop(AddValue(t, metrics[j], flag_, call), metrics, j + 1, flag_ + 1, call)

measure_performance_for_a_user(t, metrics, call) ==
    IF call.user \notin DOMAIN call.test_pos THEN [t |-> t, raised |-> FALSE]
    ELSE MetricLoop(t, metrics, 1, 0, call)

\* --------------------------------------------------- the end of a pass
average_user(t) ==
    [t EXCEPT !.results =
        [m \in DOMAIN t.results |-> RDivInt(t.results[m], t.num_test_users)]]

average_user_attr(t) ==
    [t EXCEPT !.results_user_attr =
        [a \in Groups |->
            [m \in DOMAIN t.results_user_attr[a] |->
                IF t.num_users_per_group[a] = 0 THEN Zero
                ELSE RDivInt(t.results_user_attr[a][m], t.num_users_per_group[a])]]]

\* count_info_per_group(train_user_set, self.num_actual_users_per_group)
count_info_per_group(t) ==
    [t EXCEPT !.num_actual_users_per_group =
        [a \in Groups |->
            t.num_actual_users_per_group[a]
              + Cardinality({u \in Users : t.user_attr[u] = a})]]

average_info(t, info) ==
    [a \in Groups |->
        IF t.num_users_per_group[a] = 0 THEN 0
        ELSE PyRound(info[a], t.num_users_per_group[a])]

\* the three calls of average_info_per_group
average_info_per_group(t) ==
    [t EXCEPT !.num_unseen_items_per_group = average_info(t, @),
              !.num_test_pos_per_group = average_info(t, @),
              !.num_train_pos_per_group = average_info(t, @)]

\* value_list[0] - value_list[1]
BinaryUnfairness_Reversed(value_list) == RSub(value_list[2], value_list[1])

BinaryUnfairness(value_list) == RSub(value_list[1], value_list[2])

\* np.var of the two group values
Variance(value_list) ==
    LET half == RDivInt(RSub(value_list[1], value_list[2]), 2)
    IN RMul(half, half)

measure_unfairness(t) ==
    LET value_list(m) == <<t.results_user_attr[0][m], t.results_user_attr[1][m]>>
    IN [t EXCEPT !.variance = [m \in DOMAIN t.results |-> <<Variance(value_list(m))>>],
                 !.binary_unfairness =
                     [m \in DOMAIN t.results |-> BinaryUnfairness(value_list(m))]]

\* lines 1173-1192: the averages, the group sizes and get_results_str_
Averaged(t) ==
    measure_unfairness(
        average_info_per_group(count_info_per_group(average_user_attr(average_user(t)))))

\* lines 1267-1268 divide by the number of training users of each group
ReportDivides(t) == \A a \in Groups : t.num_actual_users_per_group[a] # 0

\* --------------------------------------------------- evaluation inputs
MetricLists ==
    {<<"recall">>, <<"recall", "hit_ratio", "hit", "precision">>,
     <<"precision", "bogus">>, <<"bogus">>}

\* the test positives of a user of the evaluation data
EvalTestPos == {<<1>>, <<MaxItems + 1>>, <<1, MaxItems + 1>>}

EvalInputs ==
    [metrics : MetricLists,
     topk : {1, MaxItems},
     num_neg_samples : {NumNegSamples},
     rel : Relevances,
     train_pos : {[u \in Users |-> <<MaxItems>>]},
     test_pos : UNION {[D -> EvalTestPos] : D \in SUBSET Users}]

NoScheduler ==
    /\ cfg = <<>>
    /\ pc = "none"
    /\ model = Absent
    /\ model_ = Absent
    /\ files = <<>>
    /\ saved = <<>>
    /\ epoch = Unbound
    /\ k = 0
    /\ flag = FALSE
    /\ snap_idx = 0
    /\ e = 0
    /\ i = 0
    /\ nanPre = FALSE
    /\ interrupted = FALSE
    /\ answer = "none"
    /\ handled = <<>>
    /\ skipped = <<>>
    /\ passes = 0
    /\ nsteps = 0
    /\ aborted = FALSE
    /\ nanFT = {}
    /\ trained = <<>>

schedVars == <<cfg, pc, model, model_, files, saved, flag, trainVars, dpVars>>

NoCall == [user |-> 0, recommendation_list |-> <<>>, num_unseen_items |-> 0,
           neg_samples |-> <<>>]

InitEval ==
    /\ NoScheduler
    /\ NoStopTest
    /\ tcfg \in EvalInputs
    /\ tpc = "idle"
    /\ tester = NewTester
    /\ attr_file \in [Users -> Groups]
    /\ rng = 0
    /\ loop = NoCall
    /\ hist = [pass |-> 0, entry |-> 0, calls |-> 0, trace |-> <<>>, raised |-> "none",
               first |-> [pass |-> 0]]

\* ------------------------------------------------- recommendation(): a pass
\* random.seed(10), line 1164
Reseed_Keep(r) == r

Reseed(r) == Seed % RngStates

\* the loop `for user in train_user_set` passes over a user that the dict
\* test_pos has no key for: there is no else branch, the Tester is left as it is
AfterSkip_Counted(t) == [t EXCEPT !.num_test_users = @ + 1]

AfterSkip(t) == t

\* lines 1143-1164: init_results, set_user_attr, the files, the seed
Recommendation ==
    /\ tpc \in {"idle", "between"}
    /\ tester' = set_user_attr(init_results(tester, tcfg.metrics), attr_file)
    /\ rng' = Reseed(rng)
    /\ loop' = [NoCall EXCEPT !.user = 1]
    /\ hist' = [hist EXCEPT !.pass = @ + 1, !.entry = rng, !.calls = 0, !.trace = <<>>]
    /\ tpc' = "users"
    /\ UNCHANGED <<tcfg, attr_file>>
    /\ UNCHANGED schedVars
    /\ UNCHANGED stopVars

\* lines 1165-1167, `user in test_pos.keys()` is false
SkipUser ==
    /\ tpc = "users"
    /\ loop.user <= MaxUsers
    /\ loop.user \notin DOMAIN tcfg.test_pos
    /\ tester' = AfterSkip(tester)
    /\ loop' = [loop EXCEPT !.user = @ + 1]
    /\ UNCHANGED <<tcfg, tpc, attr_file, rng, hist>>
    /\ UNCHANGED schedVars
    /\ UNCHANGED stopVars

\* line 1168: the list of the next user; random.sample may raise
GenerateList ==
    /\ tpc = "users"
    /\ loop.user <= MaxUsers
    /\ loop.user \in DOMAIN tcfg.test_pos
    /\ LET g == generate_recommendation_list_for_a_user(
                    tcfg.rel, tcfg.train_pos[loop.user], tcfg.test_pos[loop.user],
                    tcfg.topk, tcfg.num_neg_samples, rng)
       IN IF g.raised
          THEN /\ tpc' = "failed"
               /\ hist' = [hist EXCEPT !.raised = "ValueError: sample"]
               /\ UNCHANGED <<loop, rng>>
          ELSE /\ tpc' = "measure"
               /\ loop' = [loop EXCEPT !.recommendation_list = g.recommendation_list,
                                       !.num_unseen_items = g.cnt,
                                       !.neg_samples = g.neg_samples]
               /\ rng' = g.rng
               /\ hist' = [hist EXCEPT !.calls = @ + 1]
    /\ UNCHANGED <<tcfg, tester, attr_file>>
    /\ UNCHANGED schedVars
    /\ UNCHANGED stopVars

\* line 1169: measure_performance_for_a_user, which may raise ValueError
\* after some of the metrics were added
MeasurePerformance ==
    /\ tpc = "measure"
    /\ LET call == [user |-> loop.user,
                    recommendation_list |-> loop.recommendation_list,
                    train_pos |-> tcfg.train_pos,
                    test_pos |-> tcfg.test_pos,
                    num_unseen_items |-> loop.num_unseen_items]
           r == measure_performance_for_a_user(tester, tcfg.metrics, call)
       IN /\ tester' = r.t
          /\ IF r.raised
             THEN /\ tpc' = "failed"
                  /\ hist' = [hist EXCEPT !.raised = "ValueError: metric"]
                  /\ UNCHANGED loop
             ELSE /\ tpc' = "users"
                  /\ hist' = [hist EXCEPT !.trace = Append(@,
                         [user |-> loop.user,
                          neg_samples |-> loop.neg_samples,
                          recommendation_list |-> loop.recommendation_list,
                          value |-> [m \in Range(tcfg.metrics) |->
                                       MetricValue(m, loop.recommendation_list,
                                                   tcfg.test_pos[loop.user])]])]
                  /\ loop' = [loop EXCEPT !.user = @ + 1]
    /\ UNCHANGED <<tcfg, attr_file, rng>>
    /\ UNCHANGED schedVars
    /\ UNCHANGED stopVars

\* the user loop is exhausted
LoopEnd ==
    /\ tpc = "users"
    /\ loop.user > MaxUsers
    /\ tpc' = "average"
    /\ UNCHANGED <<tcfg, tester, attr_file, rng, loop, hist>>
    /\ UNCHANGED schedVars
    /\ UNCHANGED stopVars

\* lines 1173-1276: average_user divides by num_test_users, the report
\* divides by each group's number of training users
AverageAndReport ==
    /\ tpc = "average"
    /\ IF tester.num_test_users = 0
       THEN /\ tpc' = "failed"
            /\ hist' = [hist EXCEPT !.raised = "ZeroDivisionError: average_user"]
            /\ UNCHANGED tester
       ELSE /\ tester' = Averaged(tester)
            /\ IF ReportDivides(tester')
               THEN /\ tpc' = IF hist.pass = 1 THEN "between" ELSE "done"
                    /\ hist' = IF hist.pass = 1
                               THEN [hist EXCEPT !.first =
                                       [pass |-> 1,
                                        attr_file |-> attr_file,
                                        tester |-> tester',
                                        trace |-> hist.trace]]
                               ELSE hist
               ELSE /\ tpc' = "failed"
                    /\ hist' = [hist EXCEPT !.raised = "ZeroDivisionError: report"]
    /\ UNCHANGED <<tcfg, attr_file, rng, loop>>
    /\ UNCHANGED schedVars
    /\ UNCHANGED stopVars

\* between two passes other code draws from the random module
OtherDraw ==
    /\ tpc = "between"
    /\ rng' = (rng + 1) % RngStates
    /\ UNCHANGED <<tcfg, tpc, tester, attr_file, loop, hist>>
    /\ UNCHANGED schedVars
    /\ UNCHANGED stopVars

\* between two passes the attribute file is rewritten with the two group
\* labels exchanged
RelabelGroups ==
    /\ tpc = "between"
    /\ attr_file = hist.first.attr_file
    /\ attr_file' = [u \in Users |-> 1 - attr_file[u]]
    /\ UNCHANGED <<tcfg, tpc, tester, rng, loop, hist>>
    /\ UNCHANGED schedVars
    /\ UNCHANGED stopVars

NextEval ==
    \/ Recommendation
    \/ SkipUser
    \/ GenerateList
    \/ MeasurePerformance
    \/ LoopEnd
    \/ AverageAndReport
    \/ OtherDraw
    \/ RelabelGroups

SpecEval == InitEval /\ [][NextEval]_vars

\* ------------------------------------- one user: the list and its metrics
\* the arguments of one call of generate_recommendation_list_for_a_user
ListInputs ==
    [rel : Relevances,
     train_pos_u : {<<it>> : it \in train_item_set},
     test_pos_u : {<<a>> : a \in ItemIds} \cup {<<a, b>> : a \in ItemIds, b \in ItemIds},
     K : (-1)..MaxItems,
     num_neg_samples : (-1)..MaxItems]

InitList ==
    /\ NoScheduler
    /\ NoStopTest
    /\ tcfg \in ListInputs
    /\ tpc = "call"
    /\ tester = NewTester
    /\ attr_file = <<>>
    /\ rng \in 0..(RngStates - 1)
    /\ loop = NoCall
    /\ hist = [value |-> <<>>]

\* the call of line 1168 for one user
CallGenerate ==
    /\ tpc = "call"
    /\ LET g == generate_recommendation_list_for_a_user(
                    tcfg.rel, tcfg.train_pos_u, tcfg.test_pos_u, tcfg.K,
                    tcfg.num_neg_samples, rng)
       IN IF g.raised
          THEN /\ tpc' = "raised"
               /\ UNCHANGED <<loop, rng>>
          ELSE /\ tpc' = "listed"
               /\ loop' = [user |-> 1,
                           recommendation_list |-> g.recommendation_list,
                           num_unseen_items |-> g.cnt,
                           neg_samples |-> g.neg_samples]
               /\ rng' = g.rng
    /\ UNCHANGED <<tcfg, tester, attr_file, hist>>
    /\ UNCHANGED schedVars
    /\ UNCHANGED stopVars

\* the four measures of lines 1410-1460 applied to the list
CallMeasures ==
    /\ tpc = "listed"
    /\ tpc' = "scored"
    /\ hist' = [value |-> [m \in Supported |->
                   MetricValue(m, loop.recommendation_list, tcfg.test_pos_u)]]
    /\ UNCHANGED <<tcfg, tester, attr_file, rng, loop>>
    /\ UNCHANGED schedVars
    /\ UNCHANGED stopVars

NextList == CallGenerate \/ CallMeasures

SpecList == InitList /\ [][NextList]_vars

\* ------------------------------------------------- eval_termination
\* utils.non_increasing: no score is below its successor
non_increasing(lst) == \A j \in 1..(Len(lst) - 1) : lst[j] >= lst[j + 1]

\* criterion[-n:], n >= 1
LastN(lst, n) == IF n >= Len(lst) THEN lst ELSE SubSeq(lst, Len(lst) - n + 1, Len(lst))

\* criterion.index(max(criterion)): zero-based, the first occurrence
IndexOfMax(lst) ==
    (CHOOSE j \in 1..Len(lst) :
        /\ \A h \in 1..Len(lst) : lst[h] <= lst[j]
        /\ \A h \in 1..(j - 1) : lst[h] < lst[j]) - 1

eval_termination_AtLeast(crit, stop) ==
    IF Len(crit) >= Patience /\ non_increasing(LastN(crit, stop)) THEN TRUE
    ELSE IF Len(crit) - IndexOfMax(crit) > Patience THEN TRUE
    ELSE FALSE

eval_termination(crit, stop) ==
    IF Len(crit) > Patience /\ non_increasing(LastN(crit, stop)) THEN TRUE
    ELSE IF Len(crit) - IndexOfMax(crit) > Patience THEN TRUE
    ELSE FALSE

\* score histories of n epochs: flat, with the best score at epoch p and,
\* when `up`, a rise in the last epoch
History(n, p, up) ==
    [j \in 1..n |-> IF j = p THEN 2 ELSE IF up /\ j = n THEN 1 ELSE 0]

Histories ==
    {History(n, p, up) : n \in 1..(Patience + HistoryMargin),
                         p \in 1..(Patience + HistoryMargin),
                         up \in BOOLEAN}

InitStop ==
    /\ NoScheduler
    /\ NoTester
    /\ criterion \in Histories
    /\ early_stop \in 1..MaxStop
    /\ verdict = "none"

EvalTermination ==
    /\ verdict = "none"
    /\ criterion # <<>>
    /\ verdict' = IF eval_termination(criterion, early_stop) THEN "True" ELSE "False"
    /\ UNCHANGED <<criterion, early_stop>>
    /\ UNCHANGED evalVars
    /\ UNCHANGED schedVars

NextStop == EvalTermination

SpecStop == InitStop /\ [][NextStop]_vars

\* ======================================================================
\* Claims about the evaluator
\* ======================================================================

\* every accumulator and user counter is as init_results left it
Untouched(t) ==
    /\ t.num_test_users = 0
    /\ \A m \in DOMAIN t.results : t.results[m] = Zero
    /\ \A a \in Groups :
          /\ t.num_users_per_group[a] = 0
          /\ t.num_unseen_items_per_group[a] = 0
          /\ t.num_test_pos_per_group[a] = 0
          /\ t.num_train_pos_per_group[a] = 0
          /\ \A m \in DOMAIN t.results : t.results_user_attr[a][m] = Zero

\* C11 (as claimed): when a pass fails on a metric name outside the
\* supported set, the model's relevance function was not called and no
\* metric accumulator or user counter was updated before the error.
C11_Original ==
    hist.raised = "ValueError: metric" => (hist.calls = 0 /\ Untouched(tester))

\* the items eligible as negatives of the call
Eligible ==
    {it \in train_item_set :
        it \notin Range(tcfg.train_pos_u) /\ it \notin Range(tcfg.test_pos_u)}

Requested == tcfg.num_neg_samples # -1

Returned == tpc \in {"listed", "scored"}

\* C12: when the requested negative-sample size (not -1) exceeds the number
\* of eligible negatives the call fails with an error; a call that returns
\* has sampled exactly the requested number of negatives, never fewer.
C12_SampleTooLarge ==
    /\ (tpc # "call" /\ Requested /\ tcfg.num_neg_samples > Cardinality(Eligible))
          => tpc = "raised"
    /\ (Returned /\ Requested) => Len(loop.neg_samples) = tcfg.num_neg_samples

C12_Witness ==
    /\ tpc = "raised"
    /\ Cardinality(Eligible) >= 1
    /\ tcfg.num_neg_samples > Cardinality(Eligible)

NoDuplicate(s) == \A a, b \in 1..Len(s) : s[a] = s[b] => a = b

\* C14: a returned recommendation list has no duplicate item, holds only
\* items of the candidate set (the user's test positives and the sampled
\* negatives), is ranked by descending relevance, has at most K entries when
\* K > 0 and is the whole ranked candidate set when K <= 0, also when the
\* test-positive list repeats an item.
C14_ListShape ==
    Returned =>
        LET rec == loop.recommendation_list
            cand == Range(tcfg.test_pos_u) \cup Range(loop.neg_samples)
        IN /\ NoDuplicate(rec)
           /\ Range(rec) \subseteq cand
           /\ \A a, b \in 1..Len(rec) : a < b => tcfg.rel[rec[a]] >= tcfg.rel[rec[b]]
           /\ tcfg.K > 0 => Len(rec) <= tcfg.K
           /\ tcfg.K <= 0 => Range(rec) = cand

C14_Witness ==
    /\ Returned
    /\ Len(tcfg.test_pos_u) = 2
    /\ tcfg.test_pos_u[1] = tcfg.test_pos_u[2]
    /\ tcfg.K = 2
    /\ Len(loop.recommendation_list) = 2

\* the users the loop of the running pass has passed, and those of them
\* that test_pos has a key for
Scanned == IF tpc \in {"users", "average"} THEN 1..(loop.user - 1) ELSE {}
EvaluatedSoFar == Scanned \cap DOMAIN tcfg.test_pos

RECURSIVE SumValues(_, _)
SumValues(tr, m) ==
    IF tr = <<>> THEN Zero
    ELSE RAdd(SumValues(SubSeq(tr, 1, Len(tr) - 1), m), tr[Len(tr)].value[m])

\* the step of the user loop over a user that test_pos has no key for
SkipStep ==
    /\ tpc = "users"
    /\ loop.user <= MaxUsers
    /\ loop.user \notin DOMAIN tcfg.test_pos
    /\ loop'.user = loop.user + 1

\* C13 (as claimed): a training user without test positives is skipped and
\* the skip is recorded in a counter of the evaluator, so the step changes
\* the Tester.
C13_Original == [][SkipStep => tester' # tester]_vars

\* C13 (amended): a training user without test positives is skipped: between
\* two users and at the end of the loop the user counters count exactly the
\* passed users that have test positives, the relevance function was called
\* once for each of them and the accumulators hold the sum of their values
\* only; the loop goes on to the remaining users and reaches its end.
C13_Amended ==
    tpc \in {"users", "average"} =>
        /\ tester.num_test_users = Cardinality(EvaluatedSoFar)
        /\ hist.calls = Cardinality(EvaluatedSoFar)
        /\ {hist.trace[j].user : j \in 1..Len(hist.trace)} = EvaluatedSoFar
        /\ \A a \in Groups :
              tester.num_users_per_group[a]
                = Cardinality({u \in EvaluatedSoFar : attr_file[u] = a})
        /\ \A m \in DOMAIN tester.results :
              tester.results[m] = SumValues(hist.trace, m)

C13_Witness ==
    /\ tpc = "average"
    /\ 1 \notin DOMAIN tcfg.test_pos
    /\ tester.num_test_users = MaxUsers - 1
    /\ Len(tcfg.metrics) > 1

\* a pass has returned its report
Reported == tpc \in {"between", "done"}

\* a / b = c for rationals a, c and an integer b > 0, by cross-multiplication
IsQuotient(c, a, b) == c.n * a.d * b = a.n * c.d

\* C15: the overall value of each metric that a pass reports is the
\* unweighted mean of the per-user values over exactly the evaluated users:
\* during the loop every evaluated user has added its value once to each
\* metric's overall accumulator and has been counted once in num_test_users,
\* however many metrics are configured.
C15_OverallMean ==
    /\ tpc \in {"users", "average"} =>
          /\ tester.num_test_users = Len(hist.trace)
          /\ \A m \in DOMAIN tester.results :
                tester.results[m] = SumValues(hist.trace, m)
    /\ Reported =>
          /\ tester.num_test_users = Len(hist.trace)
          /\ NoDuplicate([j \in 1..Len(hist.trace) |-> hist.trace[j].user])
          /\ {hist.trace[j].user : j \in 1..Len(hist.trace)} = DOMAIN tcfg.test_pos
          /\ \A m \in DOMAIN tester.results :
                IsQuotient(tester.results[m], SumValues(hist.trace, m), Len(hist.trace))

C15_Witness ==
    /\ Reported
    /\ Len(tcfg.metrics) > 1
    /\ Len(hist.trace) = MaxUsers
    /\ "precision" \in DOMAIN tester.results
    /\ hist.trace[1].value["precision"] # hist.trace[2].value["precision"]
    /\ tester.results["precision"] # Zero

\* the trace entries of the users of group a
RECURSIVE OfGroup(_, _)
OfGroup(tr, a) ==
    IF tr = <<>> THEN <<>>
    ELSE LET before == OfGroup(SubSeq(tr, 1, Len(tr) - 1), a)
         IN IF tester.user_attr[tr[Len(tr)].user] = a
            THEN Append(before, tr[Len(tr)]) ELSE before

\* C16: every evaluated user is in exactly one group bucket: at every point
\* of the user loop and after the pass the group user counters sum to
\* num_test_users and each counts the evaluated users of its group, and
\* before averaging the group totals of each metric sum to the overall total.
C16_OneBucket ==
    /\ (tpc \in {"users", "measure", "average"} \/ Reported) =>
          /\ tester.num_users_per_group[0] + tester.num_users_per_group[1]
                = tester.num_test_users
          /\ \A a \in Groups :
                tester.num_users_per_group[a] = Len(OfGroup(hist.trace, a))
    /\ tpc \in {"users", "measure", "average"} =>
          \A m \in DOMAIN tester.results :
              /\ RAdd(tester.results_user_attr[0][m], tester.results_user_attr[1][m])
                    = tester.results[m]
              /\ \A a \in Groups :
                    tester.results_user_attr[a][m] = SumValues(OfGroup(hist.trace, a), m)

C16_Witness ==
    /\ tpc = "average"
    /\ tester.num_users_per_group[0] >= 1
    /\ tester.num_users_per_group[1] >= 1
    /\ \E m \in DOMAIN tester.results :
          /\ tester.results_user_attr[0][m] # Zero
          /\ tester.results_user_attr[1][m] # Zero

\* the mean of metric m over the evaluated users of group a, 0 for none
MeanOf(tr, m) ==
    IF tr = <<>> THEN Zero
    ELSE Frac(SumValues(tr, m).n, SumValues(tr, m).d * Len(tr))

Negated(x) == [n |-> 0 - x.n, d |-> x.d]

Relabelled == attr_file = [u \in Users |-> 1 - hist.first.attr_file[u]]

\* C17: the parity difference a pass reports for a metric is the mean of
\* group 0 minus the mean of group 1, a group's mean being its total over its
\* own number of evaluated users and 0 for a group without evaluated users;
\* a second pass over the same data with the two labels exchanged reports
\* the negated value.
C17_Parity ==
    /\ Reported =>
          \A m \in DOMAIN tester.results :
              LET mean0 == MeanOf(OfGroup(hist.trace, 0), m)
                  mean1 == MeanOf(OfGroup(hist.trace, 1), m)
              IN /\ tester.results_user_attr[0][m] = mean0
                 /\ tester.results_user_attr[1][m] = mean1
                 /\ tester.binary_unfairness[m].n * mean0.d * mean1.d
                       = (mean0.n * mean1.d - mean1.n * mean0.d)
                            * tester.binary_unfairness[m].d
    /\ (tpc = "done" /\ Relabelled) =>
          \A m \in DOMAIN tester.results :
              tester.binary_unfairness[m]
                = Negated(hist.first.tester.binary_unfairness[m])

C17_Witness ==
    /\ tpc = "done"
    /\ Relabelled
    /\ tester.num_users_per_group[0] = 0
    /\ "precision" \in DOMAIN tester.results
    /\ tester.binary_unfairness["precision"].n < 0

\* C19: a second pass over the same model, files and labels reports what the
\* first pass reported: every user gets the same negative sample, the same
\* list and the same metric values, whatever was drawn from the random module
\* between the passes.
C19_SamePass ==
    (tpc = "done" /\ attr_file = hist.first.attr_file) =>
        /\ hist.trace = hist.first.trace
        /\ tester = hist.first.tester

C19_Witness ==
    /\ tpc = "done"
    /\ attr_file = hist.first.attr_file
    /\ hist.entry # Seed % RngStates
    /\ \E j \in 1..Len(hist.trace) :
          Cardinality(train_item_set \ (Range(tcfg.train_pos[hist.trace[j].user])
                                         \cup Range(tcfg.test_pos[hist.trace[j].user])))
             > Len(hist.trace[j].neg_samples)

\* C18: for a non-empty duplicate-free recommendation list and a non-empty
\* set of test positives, with h the number of list entries that are test
\* positives: hit count = h, recall = h / |test positives|, precision =
\* h / (length of the list, whatever K is), hit ratio = 1 if h > 0 else 0.
C18_Measures ==
    (tpc = "scored" /\ NoDuplicate(tcfg.test_pos_u)) =>
        LET rec == loop.recommendation_list
            h == Cardinality(Range(rec) \cap Range(tcfg.test_pos_u))
            v == hist.value
        IN /\ Len(rec) > 0
           /\ v["hit"] = [n |-> h, d |-> 1]
           /\ v["recall"].n * Len(tcfg.test_pos_u) = h * v["recall"].d
           /\ v["precision"].n * Len(rec) = h * v["precision"].d
           /\ v["hit_ratio"] = [n |-> IF h > 0 THEN 1 ELSE 0, d |-> 1]

\* the list [a, b, c] against the test positives {a, c}
C18_Witness ==
    /\ tpc = "scored"
    /\ NoDuplicate(tcfg.test_pos_u)
    /\ Len(tcfg.test_pos_u) = 2
    /\ Len(loop.recommendation_list) = 3
    /\ tcfg.K <= 0
    /\ loop.recommendation_list[1] \in Range(tcfg.test_pos_u)
    /\ loop.recommendation_list[2] \notin Range(tcfg.test_pos_u)
    /\ loop.recommendation_list[3] \in Range(tcfg.test_pos_u)
    /\ hist.value["recall"] = [n |-> 1, d |-> 1]
    /\ hist.value["precision"] = [n |-> 2, d |-> 3]
    /\ hist.value["hit_ratio"] = [n |-> 1, d |-> 1]

\* the last early_stop scores are non-increasing
TailNonIncreasing ==
    \A j \in 1..(Len(criterion) - 1) :
        j > Len(criterion) - early_stop => criterion[j] >= criterion[j + 1]

\* the best score was first reached more than 20 scores before the end
BestIsOld ==
    \E j \in 1..Len(criterion) :
        /\ \A h \in 1..Len(criterion) : criterion[h] <= criterion[j]
        /\ \A h \in 1..(j - 1) : criterion[h] < criterion[j]
        /\ Len(criterion) - (j - 1) > 20

\* C20 (as claimed): eval_termination returns True exactly when (a) at
\* least 20 scores are recorded and the last early_stop scores are
\* non-increasing, or (b) the best score occurred more than 20 epochs ago.
C20_Original ==
    verdict # "none" =>
        ((verdict = "True") <=> ((Len(criterion) >= 20 /\ TailNonIncreasing) \/ BestIsOld))

\* C20 (amended): eval_termination returns True exactly when (a) more than
\* 20 scores are recorded and the last early_stop scores are non-increasing,
\* or (b) the best score occurred more than 20 epochs ago; False otherwise.
C20_Amended ==
    verdict # "none" =>
        ((verdict = "True") <=> ((Len(criterion) > 20 /\ TailNonIncreasing) \/ BestIsOld))

C20_Witness ==
    /\ verdict = "True"
    /\ Len(criterion) = 21
    /\ TailNonIncreasing
    /\ ~BestIsOld

\* ======================================================================
\* The divergence test of one training step
\* ======================================================================
MaxPred == 3         \* a raw prediction has 1..MaxPred entries

\* the numeric kind of one entry of the raw prediction
EntryKinds == {"finite", "nan", "+inf", "-inf"}

PredictionArrays == UNION {[1..n -> EntryKinds] : n \in 1..MaxPred}

\* the class of a prediction, as the scheduler's steps draw it
Classify(arr) ==
    IF \E j \in 1..Len(arr) : arr[j] = "nan" THEN "nan"
    ELSE IF \E j \in 1..Len(arr) : arr[j] \in {"+inf", "-inf"} THEN "inf"
    ELSE "finite"

\* a step of a pre-training pass (fit_offline) or of a fine-tuning pass
\* (dynamic_prediction) has returned the prediction; `last`: it was the
\* pass's last example
InitDiverge ==
    /\ pc \in {"fit_offline", "dp_step"}
    /\ loop \in [prediction : PredictionArrays, last : BOOLEAN, tested : {FALSE}]
    /\ flag = FALSE
    /\ cfg = <<>>
    /\ model = FreshModel
    /\ model_ = FreshModel
    /\ files = <<>>
    /\ saved = <<>>
    /\ epoch = 0
    /\ k = 0
    /\ snap_idx = 1
    /\ e = 0
    /\ i = 0
    /\ nanPre = FALSE
    /\ interrupted = FALSE
    /\ answer = "none"
    /\ handled = <<>>
    /\ skipped = <<>>
    /\ passes = 0
    /\ nsteps = 0
    /\ aborted = FALSE
    /\ nanFT = {}
    /\ trained = <<>>
    /\ tcfg = <<>>
    /\ tpc = "none"
    /\ tester = <<>>
    /\ attr_file = <<>>
    /\ rng = 0
    /\ hist = <<>>
    /\ NoStopTest

\* lines 404-406 with 240-242, and lines 505-507 with 518-521
DivergenceTest ==
    /\ ~loop.tested
    /\ flag' = IsNanAny(Classify(loop.prediction))
    /\ pc' = IF pc = "fit_offline"
                THEN (IF flag' \/ loop.last THEN AfterPass(flag') ELSE "fit_offline")
                ELSE AfterStep(flag', loop.last)
    /\ loop' = [loop EXCEPT !.tested = TRUE]
    /\ UNCHANGED <<cfg, model, model_, files, saved>>
    /\ UNCHANGED trainVars
    /\ UNCHANGED dpVars
    /\ UNCHANGED <<tcfg, tpc, tester, attr_file, rng, hist>>
    /\ UNCHANGED stopVars

NextDiverge == DivergenceTest

SpecDiverge == InitDiverge /\ [][NextDiverge]_vars

\* ======================================================================
\* dynamic_prediction: collecting the stream into snapshot buckets
\* ======================================================================
MaxStream == 6       \* the stream has at most MaxStream positions

\* the boundaries are strictly increasing end offsets and the last one is
\* the end of the stream
BucketConfigs ==
    {[snap_boundaries |-> SortedSeq(S), nTest |-> CHOOSE x \in S : \A y \in S : y <= x] :
        S \in {T \in SUBSET (1..MaxStream) : Cardinality(T) \in 1..MaxM}}

InitBuckets ==
    /\ cfg \in BucketConfigs
    /\ pc = "collect"
    /\ snap_idx = 0
    /\ loop = [buckets |-> <<>>]
    /\ flag = FALSE
    /\ model = FreshModel
    /\ model_ = FreshModel
    /\ files = <<>>
    /\ saved = <<>>
    /\ epoch = 0
    /\ k = 0
    /\ e = 0
    /\ i = 0
    /\ nanPre = FALSE
    /\ interrupted = FALSE
    /\ answer = "none"
    /\ handled = <<>>
    /\ skipped = <<>>
    /\ passes = 0
    /\ nsteps = 0
    /\ aborted = FALSE
    /\ nanFT = {}
    /\ trained = <<>>
    /\ tcfg = <<>>
    /\ tpc = "none"
    /\ tester = <<>>
    /\ attr_file = <<>>
    /\ rng = 0
    /\ hist = <<>>
    /\ NoStopTest

\* lines 435-457: one round of the loop over zip(starts, ends)
CollectSnapshot ==
    /\ pc = "collect"
    /\ snap_idx < M
    /\ loop' = [loop EXCEPT !.buckets = Append(@, data_custom(snap_idx))]
    /\ snap_idx' = snap_idx + 1
    /\ pc' = IF snap_idx' < M THEN "collect" ELSE "collected"
    /\ UNCHANGED <<cfg, model, model_, files, saved, flag>>
    /\ UNCHANGED trainVars
    /\ UNCHANGED <<e, i, handled, skipped, passes, nsteps, aborted, nanFT, trained>>
    /\ UNCHANGED <<tcfg, tpc, tester, attr_file, rng, hist>>
    /\ UNCHANGED stopVars

NextBuckets == CollectSnapshot

SpecBuckets == InitBuckets /\ [][NextBuckets]_vars

\* ======================================================================
\* Claims about the passes of the scheduler
\* ======================================================================

\* boundary(j): the end offset of snapshot j
Boundary(j) == cfg.snap_boundaries[j + 1]

\* the stream positions [boundary(idx-1), boundary(idx)) in stream order
OwnRange(idx) ==
    [j \in 1..(Boundary(idx) - Boundary(idx - 1)) |-> Boundary(idx - 1) + j - 1]

\* n passes over seq
Repeat(seq, n) == [j \in 1..(n * Len(seq)) |-> seq[((j - 1) % Len(seq)) + 1]]

\* the size of snapshot idx's own range
OwnSize(idx) == Boundary(idx) - Boundary(idx - 1)

\* log is the beginning of n passes over the own range of snapshot idx
BeginsPasses(log, idx, n) ==
    /\ Len(log) <= n * OwnSize(idx)
    /\ \A j \in 1..Len(log) : log[j] = Boundary(idx - 1) + ((j - 1) % OwnSize(idx))

PlainFinetune == cfg.dyn_method.name = "finetune" /\ cfg.dyn_method.digits = <<>>

InSnapshot == pc \in {"dp_epoch", "dp_step", "dp_save"}

\* C21: under finetune without a suffix and with no NaN prediction in the
\* fine-tuning, every snapshot i in 1..M-1 gets exactly tepoch passes; the
\* steps of a pass use the positions [boundary(i-1), boundary(i)) once each,
\* in stream order, and are applied to the model state snapshot i-1 left.
C21_FinetunePasses ==
    (PlainFinetune /\ nanFT = {}) =>
        /\ InSnapshot =>
             /\ snap_idx \in 1..(M - 1)
             /\ BeginsPasses(trained, snap_idx, cfg.tepoch)
             /\ passes <= cfg.tepoch
             /\ model_.origin = files[snap_idx - 1].origin
             /\ model_.steps = files[snap_idx - 1].steps + Len(trained)
        /\ pc = "dp_save" =>
             /\ passes = cfg.tepoch
             /\ trained = Repeat(OwnRange(snap_idx), cfg.tepoch)
        /\ pc = "done" => handled = Iota(M - 1)

C21_Witness ==
    /\ PlainFinetune
    /\ nanFT = {}
    /\ pc = "dp_save"
    /\ cfg.snap_boundaries = <<1, 3>>
    /\ cfg.tepoch = 2
    /\ trained = <<1, 2, 1, 2>>
    /\ model_.steps = model.steps + 4

\* C22 as stated: when a fine-tuning pass of snapshot i meets a NaN
\* prediction, the remaining passes of snapshot i are still executed before
\* the scheduler moves on: snapshot i gets its tepoch passes.
C22_Original ==
    (aborted /\ pc = "dp_save") => passes = cfg.tepoch

\* C22 amended: when pass e of snapshot i meets a NaN prediction, that pass
\* is aborted at that example and the remaining passes e+1..tepoch of
\* snapshot i are not executed: the scheduler goes straight to the
\* checkpoint decision of snapshot i and then to snapshot i+1.
C22_Amended ==
    aborted =>
        /\ pc \in {"dp_save", "dp_loop", "done"}
        /\ passes = e + 1
        /\ passes <= cfg.tepoch
        /\ Len(trained) > e * OwnSize(handled[Len(handled)])
        /\ BeginsPasses(trained, handled[Len(handled)], passes)
        /\ flag = FALSE

C22_Witness ==
    /\ aborted
    /\ pc = "dp_loop"
    /\ snap_idx = 2
    /\ M = 3
    /\ cfg.tepoch = 2
    /\ passes = 1
    /\ trained = <<1>>

\* ------------------------------------------------- the divergence test
NonFinite(arr) == \E j \in 1..Len(arr) : arr[j] # "finite"

\* the pass was left: train() is past its epoch loop, or dynamic_prediction
\* is at the checkpoint of the snapshot
PassAborted == pc \in {"post", "dp_save"}

\* C23 as stated: every prediction with a non-finite entry (NaN, +Inf or
\* -Inf) raises the divergence flag and aborts the current pass, in
\* pre-training and in fine-tuning.
C23_Original ==
    (loop.tested /\ NonFinite(loop.prediction)) => (flag /\ PassAborted)

\* ------------------------------------------------- interrupt and copy
\* C24 as stated: when the interrupt is handled every pre-training pass that
\* was started has run over all its examples: the model has received a
\* whole number of complete passes.
C24_Original ==
    interrupted => model.steps % cfg.nTrain = 0

\* C24 amended: an interrupt during pre-training is observed wherever the
\* epoch loop is when it arrives, also in the middle of a pass: when it is
\* handled the model has received the complete passes before and the steps
\* of the examples the running pass had consumed, and no pre-training step
\* follows.
C24_Amended ==
    interrupted =>
        /\ pc \notin {"epoch_loop", "fit_offline"}
        /\ k \in 0..cfg.nTrain
        /\ model.origin = "init" =>
             model.steps = (IF epoch = Unbound THEN 0 ELSE epoch * cfg.nTrain) + k

C24_Witness ==
    /\ interrupted
    /\ pc = "prompt"
    /\ cfg.nTrain = 2
    /\ epoch = 1
    /\ k = 1
    /\ model.steps = 3

FineTuningMode == cfg.dyn_method.name \in {"finetune", "modi-fine"}

\* the state pre-training ended in: the steps of its passes on the initial
\* model, or the checkpoint that was loaded
EndOfPreTraining ==
    IF model.origin = "init"
    THEN model.steps = (IF epoch = Unbound THEN 0 ELSE epoch * cfg.nTrain) + k
    ELSE model = DiskModel

\* C25: under finetune/modi-fine<N>, _snap0 holds the model state at the end
\* of pre-training; the fine-tuning steps and the _snap{i} (i >= 1) writes
\* are made on a copy taken at that point, and the caller's model is not
\* changed by FINE_TUNE: it equals the _snap0 state when train() returns.
C25_CopyIsTrained ==
    (FineTuningMode /\ (InFineTune \/ pc = "done")) =>
        /\ EndOfPreTraining
        /\ files[0] = model
        /\ model_.origin = model.origin
        /\ model_.steps >= model.steps
        /\ \A j \in 1..Len(saved) :
             saved[j].site = "dp" =>
                /\ saved[j].tag >= 1
                /\ files[saved[j].tag].origin = model.origin
                /\ files[saved[j].tag].steps >= model.steps
                /\ files[saved[j].tag].steps <= model_.steps

C25_Witness ==
    /\ cfg.dyn_method.name = "modi-fine"
    /\ pc = "done"
    /\ model.steps = 4
    /\ files[0] = model
    /\ files[2] = model_
    /\ model_.steps = 6

\* ------------------------------------------------- snapshot buckets
\* the positions lo, lo + 1, .., hi - 1
Interval(lo, hi) == [j \in 1..(hi - lo) |-> lo + j - 1]

\* where position p was collected: bucket index and place in the bucket
PlacesOf(p) ==
    {<<b, x>> \in (1..Len(loop.buckets)) \X (1..MaxStream) :
        x <= Len(loop.buckets[b]) /\ loop.buckets[b][x] = p}

NoEvaluation == tpc = "none" /\ tester = <<>> /\ hist = <<>>

\* C27 as stated: at every snapshot boundary of FINE_TUNE an evaluation of
\* the current model has been performed when the checkpoint decision for
\* the snapshot is made.
C27_Original ==
    pc = "dp_save" => ~NoEvaluation

\* C27 amended: during FINE_TUNE the scheduler never invokes the evaluator:
\* between the last training step of snapshot i and the first training step
\* of snapshot i+1 only the checkpoint decision is made, and it depends on
\* the mode and the snapshot index alone.
C27_Amended ==
    (InFineTune \/ pc = "done") =>
        /\ NoEvaluation
        /\ (pc = "dp_loop" /\ snap_idx >= 2) =>
             CountDP(snap_idx - 1) = IF NoCheckpointFor(snap_idx - 1) THEN 0 ELSE 1

C27_Witness ==
    /\ pc = "dp_loop"
    /\ snap_idx = 2
    /\ M = 3
    /\ nsteps = 2
    /\ CountDP(1) = 1
    /\ NoEvaluation

\* ------------------------------------------------- ties in the ranking
\* the candidate order: the user's test positives, then the sampled negatives
CandidateOrder == tcfg.test_pos_u \o loop.neg_samples

\* the place of an item's first occurrence in the candidate order
FirstPlace(it) ==
    CHOOSE j \in 1..Len(CandidateOrder) :
        /\ CandidateOrder[j] = it
        /\ \A h \in 1..(j - 1) : CandidateOrder[h] # it

AllScoresEqual ==
    \A a, b \in 1..Len(CandidateOrder) :
        tcfg.rel[CandidateOrder[a]] = tcfg.rel[CandidateOrder[b]]

\* C28: the list is ordered by descending relevance and candidates of equal
\* relevance keep their candidate order, in which the test positives come
\* before the sampled negatives; when all candidates have the same score the
\* top of the list consists of the user's test positives.
C28_StableRanking ==
    Returned =>
        LET rec == loop.recommendation_list
        IN /\ \A a, b \in 1..Len(rec) :
                a < b =>
                   \/ tcfg.rel[rec[a]] > tcfg.rel[rec[b]]
                   \/ /\ tcfg.rel[rec[a]] = tcfg.rel[rec[b]]
                      /\ FirstPlace(rec[a]) < FirstPlace(rec[b])
           /\ AllScoresEqual =>
                \A a \in 1..Len(rec) :
                   a <= Cardinality(Range(tcfg.test_pos_u)) =>
                      rec[a] \in Range(tcfg.test_pos_u)

C28_Witness ==
    /\ Returned
    /\ AllScoresEqual
    /\ Len(loop.neg_samples) = 2
    /\ tcfg.test_pos_u = <<MaxItems + 1, 1>>
    /\ tcfg.K = 3
    /\ SubSeq(loop.recommendation_list, 1, 2) = <<MaxItems + 1, 1>>
    /\ loop.recommendation_list[3] \in Range(loop.neg_samples)

\* ------------------------------------------------- update before the test
\* the snapshot whose loop body ran last
LastHandled == handled[Len(handled)]

\* C29: the optimizer step comes before the divergence test: a step with a
\* NaN prediction has changed the model, nothing is rolled back, and every
\* checkpoint written afterwards contains the update, the checkpoint of the
\* snapshot that diverged included.
C29_UpdateBeforeTest ==
    /\ nanPre =>
         /\ k >= 1
         /\ model.steps = epoch * cfg.nTrain + k
         /\ \A j \in 1..Len(saved) : files[saved[j].tag].steps >= model.steps
    /\ (cfg.dyn_method.name = "finetune" /\ aborted) =>
         /\ Len(trained) >= 1
         /\ model_.steps = files[LastHandled - 1].steps + Len(trained)
         /\ CountDP(LastHandled) = 1 => files[LastHandled] = model_
    /\ cfg.dyn_method.name = "finetune" =>
         \A idx \in nanFT : \A t \in Tags :
            (t > idx /\ CountDP(t) = 1) => files[t].steps >= files[idx].steps

C29_Witness ==
    /\ cfg.dyn_method.name = "finetune"
    /\ nanPre
    /\ nanFT = {1}
    /\ pc = "done"
    /\ M = 3
    /\ model.steps = 1
    /\ files[1].steps = 2
    /\ files[2].steps = 4

\* ------------------------------------------------- an existing _snap0
\* _snap0 was there when train() started, the epoch loop has a round to
\* run, and no interrupt came
StartsWithSnap0 == cfg.exists0 /\ cfg.epoch >= 1 /\ ~interrupted

HasFinetuneInName == cfg.dyn_method.name = "finetune"

\* C30: in a mode whose string contains `finetune`, with _snap0 present at
\* the start and epoch >= 1, no pre-training pass is made: the model is
\* loaded from _snap0, the epoch loop is left in its first round and the
\* run goes on to FINE_TUNE; in modi-fine<N>, fulltrain and pretrain the
\* existing _snap0 is ignored and the pre-training runs.
C30_SkipPreTraining ==
    /\ (HasFinetuneInName /\ StartsWithSnap0) =>
         /\ pc \in {"epoch_loop", "post", "dp_loop", "dp_epoch", "dp_step", "dp_save", "done"}
         /\ k = 0
         /\ ~nanPre
         /\ pc = "epoch_loop" => epoch = Unbound
         /\ pc # "epoch_loop" =>
              /\ epoch = 0
              /\ model = DiskModel
         /\ pc = "done" => handled = Iota(M - 1)
    /\ (~HasFinetuneInName /\ StartsWithSnap0) =>
         /\ model.origin = "init"
         /\ pc = "epoch_loop" => model.steps = (epoch + 1) * cfg.nTrain
         /\ (pc \notin {"epoch_loop", "fit_offline"} /\ ~nanPre) =>
              model.steps = cfg.epoch * cfg.nTrain

C30_Witness ==
    /\ HasFinetuneInName
    /\ cfg.dyn_method.digits = <<1>>
    /\ StartsWithSnap0
    /\ cfg.epoch = 2
    /\ pc = "done"
    /\ epoch = 0
    /\ model = DiskModel
    /\ handled = <<1, 2>>

====
